---------------------------- MODULE Spec2Model ----------------------------
(***************************************************************************)
(* A model of src/data_processor.py: the SMARD.de CSV cleaner              *)
(* (clean_smard_df, parse_german_number) and the driver run_pipeline that  *)
(* cleans generation.csv, consumption.csv and prices.csv, inner-joins the  *)
(* cleaned tables on their timestamp index and writes the master CSV.      *)
(*                                                                         *)
(* Text is a sequence of one-character strings, so that the string         *)
(* operations of the code (split, strip, replace, lower, "in") are         *)
(* computed character by character.  A table after pd.read_csv is a record *)
(* of its column labels, the dtype of every column and its rows of cells.  *)
(***************************************************************************)
EXTENDS Integers, Sequences, FiniteSets

\* Bounds of the explored inputs: rows per file and data columns per file.
MaxRows == 2
MaxCols == 2

(***************************************************************************)
(* Text helpers (Python str methods used by the code).                     *)
(***************************************************************************)
UpperLetters ==
  <<"A","B","C","D","E","F","G","H","I","J","K","L","M",
    "N","O","P","Q","R","S","T","U","V","W","X","Y","Z">>
LowerLetters ==
  <<"a","b","c","d","e","f","g","h","i","j","k","l","m",
    "n","o","p","q","r","s","t","u","v","w","x","y","z">>
DigitChars == <<"0","1","2","3","4","5","6","7","8","9">>
Whitespace == {" ", "\t"}

LowerTable ==
  [c \in {UpperLetters[i] : i \in 1..Len(UpperLetters)} |->
     LowerLetters[CHOOSE i \in 1..Len(UpperLetters) : UpperLetters[i] = c]]

\* str.lower() on one character
LowerChar(c) == IF c \in DOMAIN LowerTable THEN LowerTable[c] ELSE c

\* str.lower()
StrLower(s) == [i \in 1..Len(s) |-> LowerChar(s[i])]

\* sub in s
StrContains(s, sub) ==
  \E i \in 0..(Len(s) - Len(sub)) : SubSeq(s, i + 1, i + Len(sub)) = sub

\* s.split(c)[0]: the text before the first occurrence of c
SplitHead(s, c) ==
  IF \E i \in 1..Len(s) : s[i] = c
    THEN SubSeq(s, 1, (CHOOSE i \in 1..Len(s) :
                         s[i] = c /\ \A j \in 1..(i - 1) : s[j] # c) - 1)
    ELSE s

\* s.strip()
StrStrip(s) ==
  LET keep == {i \in 1..Len(s) : s[i] \notin Whitespace}
  IN  IF keep = {} THEN <<>>
      ELSE LET lo == CHOOSE i \in keep : \A j \in keep : i <= j
               hi == CHOOSE i \in keep : \A j \in keep : j <= i
           IN  SubSeq(s, lo, hi)

\* s.replace(a, b) for one-character a and b
StrReplaceChar(s, a, b) == [i \in 1..Len(s) |-> IF s[i] = a THEN b ELSE s[i]]

\* s.replace(a, '') for a one-character a
RECURSIVE StrRemoveChar(_, _)
StrRemoveChar(s, a) ==
  IF s = <<>> THEN <<>>
  ELSE IF Head(s) = a THEN StrRemoveChar(Tail(s), a)
       ELSE <<Head(s)>> \o StrRemoveChar(Tail(s), a)

\* s.split(c): the pieces between the occurrences of c
RECURSIVE StrSplit(_, _)
StrSplit(s, c) ==
  IF \E i \in 1..Len(s) : s[i] = c
    THEN LET i == CHOOSE k \in 1..Len(s) :
                    s[k] = c /\ \A j \in 1..(k - 1) : s[j] # c
         IN  <<SubSeq(s, 1, i - 1)>> \o StrSplit(SubSeq(s, i + 1, Len(s)), c)
    ELSE <<s>>

IsDigits(s) ==
  Len(s) > 0 /\ \A i \in 1..Len(s) : \E d \in 1..10 : DigitChars[d] = s[i]

DigitVal(c) == (CHOOSE d \in 1..10 : DigitChars[d] = c) - 1

RECURSIVE DigitsToNat(_)
DigitsToNat(s) ==
  IF s = <<>> THEN 0
  ELSE 10 * DigitsToNat(SubSeq(s, 1, Len(s) - 1)) + DigitVal(s[Len(s)])

(***************************************************************************)
(* Cells.  A cell of a loaded table is a text (k = "str"), a number        *)
(* (k = "num": (-1)^neg * mant / 10^frac) or missing (k = "nan").          *)
(***************************************************************************)
NaN == [k |-> "nan", s |-> <<>>, neg |-> FALSE, mant |-> 0, frac |-> 0]
StrCell(s) == [k |-> "str", s |-> s, neg |-> FALSE, mant |-> 0, frac |-> 0]
NumCell(neg, mant, frac) ==
  [k |-> "num", s |-> <<>>, neg |-> neg, mant |-> mant, frac |-> frac]

\* a decimal fraction without trailing zeros in its fractional part
RECURSIVE NormNum(_, _, _)
NormNum(neg, mant, frac) ==
  IF frac > 0 /\ mant % 10 = 0 THEN NormNum(neg, mant \div 10, frac - 1)
  ELSE NumCell(neg /\ mant # 0, mant, frac)

\* float(text): a signed decimal numeral, or ValueError (reported as NaN by
\* the only caller, parse_german_number)
PyFloat(text) ==
  LET t     == StrStrip(text)
      neg   == t # <<>> /\ Head(t) = "-"
      body  == IF t # <<>> /\ Head(t) \in {"-", "+"} THEN Tail(t) ELSE t
      parts == StrSplit(body, ".")
      ip    == parts[1]
      fp    == IF Len(parts) = 2 THEN parts[2] ELSE <<>>
      valid == /\ Len(parts) <= 2
               /\ ip \o fp # <<>>
               /\ IsDigits(ip \o fp)
  IN  IF valid THEN NormNum(neg, DigitsToNat(ip \o fp), Len(fp)) ELSE NaN

\* parse_german_number(x)
parse_german_number(x) ==
  IF x.k = "nan" THEN NaN
  ELSE IF x.k = "num" THEN x
  ELSE PyFloat(StrReplaceChar(StrRemoveChar(x.s, "."), ",", "."))

(***************************************************************************)
(* Timestamps.  An instant is a record of its calendar fields; NaT is the  *)
(* missing instant.                                                        *)
(***************************************************************************)
MonthAbbr ==
  <<<<"j","a","n">>, <<"f","e","b">>, <<"m","a","r">>,
    <<"a","p","r">>, <<"m","a","y">>, <<"j","u","n">>,
    <<"j","u","l">>, <<"a","u","g">>, <<"s","e","p">>,
    <<"o","c","t">>, <<"n","o","v">>, <<"d","e","c">>>>

Instant(y, mo, d, h, mi, sec) ==
  [nat |-> FALSE, year |-> y, month |-> mo, day |-> d,
   hour |-> h, minute |-> mi, second |-> sec]
NaT == [nat |-> TRUE, year |-> 0, month |-> 0, day |-> 0,
        hour |-> 0, minute |-> 0, second |-> 0]

\* the order of instants: a is not later than b
InstantLeq(a, b) ==
  LET fa == <<a.year, a.month, a.day, a.hour, a.minute, a.second>>
      fb == <<b.year, b.month, b.day, b.hour, b.minute, b.second>>
  IN  \/ fa = fb
      \/ \E k \in 1..6 : fa[k] < fb[k] /\ \A j \in 1..(k - 1) : fa[j] = fb[j]

\* a numeral of at most n digits with a value in lo..hi
NumeralIn(s, n, lo, hi) ==
  IsDigits(s) /\ Len(s) <= n /\ DigitsToNat(s) >= lo /\ DigitsToNat(s) <= hi

\* strptime(text, '%b %d, %Y %I:%M %p'); NaT when the text does not match
StrptimeStartDate(text) ==
  LET tok == StrSplit(text, " ")
  IN  IF Len(tok) # 5 THEN NaT
      ELSE
        LET mon  == StrLower(tok[1])
            dayc == tok[2]
            dayt == SubSeq(dayc, 1, Len(dayc) - 1)
            hm   == StrSplit(tok[4], ":")
            ap   == StrLower(tok[5])
            ok   == /\ \E m \in 1..12 : MonthAbbr[m] = mon
                    /\ Len(dayc) >= 2 /\ dayc[Len(dayc)] = ","
                    /\ NumeralIn(dayt, 2, 1, 31)
                    /\ IsDigits(tok[3]) /\ Len(tok[3]) = 4
                    /\ Len(hm) = 2
                    /\ NumeralIn(hm[1], 2, 1, 12)
                    /\ NumeralIn(hm[2], 2, 0, 59)
                    /\ ap \in {<<"a","m">>, <<"p","m">>}
        IN  IF ~ok THEN NaT
            ELSE Instant(DigitsToNat(tok[3]),
                         CHOOSE m \in 1..12 : MonthAbbr[m] = mon,
                         DigitsToNat(dayt),
                         (DigitsToNat(hm[1]) % 12)
                            + (IF ap = <<"p","m">> THEN 12 ELSE 0),
                         DigitsToNat(hm[2]), 0)

\* an ISO text 'YYYY-MM-DD HH:MM:SS'; NaT when the text does not match
ParseIso(text) ==
  LET tok == StrSplit(text, " ")
  IN  IF Len(tok) # 2 THEN NaT
      ELSE
        LET ymd == StrSplit(tok[1], "-")
            hms == StrSplit(tok[2], ":")
            ok  == /\ Len(ymd) = 3 /\ Len(hms) = 3
                   /\ IsDigits(ymd[1]) /\ Len(ymd[1]) = 4
                   /\ NumeralIn(ymd[2], 2, 1, 12)
                   /\ NumeralIn(ymd[3], 2, 1, 31)
                   /\ NumeralIn(hms[1], 2, 0, 23)
                   /\ NumeralIn(hms[2], 2, 0, 59)
                   /\ NumeralIn(hms[3], 2, 0, 59)
        IN  IF ~ok THEN NaT
            ELSE Instant(DigitsToNat(ymd[1]), DigitsToNat(ymd[2]),
                         DigitsToNat(ymd[3]), DigitsToNat(hms[1]),
                         DigitsToNat(hms[2]), DigitsToNat(hms[3]))

\* pd.to_datetime(cell, format='%b %d, %Y %I:%M %p', errors='coerce')
ToDatetimeCoerce(cell) ==
  IF cell.k = "str" THEN StrptimeStartDate(cell.s) ELSE NaT

\* pd.to_datetime(cell) with the default errors='raise': the instant of a
\* text in a known layout, NaT for a missing cell
ToDatetimeInfer(cell) ==
  IF cell.k # "str" THEN NaT
  ELSE IF ~ParseIso(cell.s).nat THEN ParseIso(cell.s)
  ELSE StrptimeStartDate(cell.s)

\* whether pd.to_datetime(cell) raises: a text in no known layout
ToDatetimeRaises(cell) == cell.k = "str" /\ ToDatetimeInfer(cell).nat

(***************************************************************************)
(* Tables.  A loaded table (the DataFrame pd.read_csv returns) has the     *)
(* column labels of the file header, one dtype per column and rows of      *)
(* cells.  A cleaned table has an instant per row as its index.            *)
(***************************************************************************)
StartDateCol == <<"S","t","a","r","t"," ","d","a","t","e">>
TimestampCol == <<"t","i","m","e","s","t","a","m","p">>
KwDate == <<"d","a","t","e">>
KwResidual == <<"r","e","s","i","d","u","a","l">>
KwGridLoadU == <<"g","r","i","d","_","l","o","a","d">>
KwGridLoadS == <<"g","r","i","d"," ","l","o","a","d">>
KwDeutschland == <<"D","e","u","t","s","c","h","l","a","n","d">>
KwEuro == <<"€">>
ResidualLoadName == <<"R","e","s","i","d","u","a","l","_","L","o","a","d">>
GridLoadName == <<"G","r","i","d","_","L","o","a","d">>
DayAheadPriceName ==
  <<"D","a","y","_","A","h","e","a","d","_","P","r","i","c","e">>

EmptyTable == [names |-> <<>>, dtypes |-> <<>>, rows |-> <<>>]

\* what a call returns: None, a table, or an exception that escapes it
RetNone == [kind |-> "none", exc |-> "", df |-> EmptyTable]
RetTable(t) == [kind |-> "df", exc |-> "", df |-> t]
Raise(e) == [kind |-> "raise", exc |-> e, df |-> EmptyTable]

\* the members of a set of numbers in ascending order
RECURSIVE Ascending(_)
Ascending(S) ==
  IF S = {} THEN <<>>
  ELSE LET m == CHOOSE x \in S : \A y \in S : x <= y
       IN  <<m>> \o Ascending(S \ {m})

\* the members of s at the positions idx, in that order
Pick(s, idx) == [k \in 1..Len(idx) |-> s[idx[k]]]

\* label in df.columns
HasColumn(labels, label) == \E j \in 1..Len(labels) : labels[j] = label
ColumnIndex(labels, label) == CHOOSE j \in 1..Len(labels) : labels[j] = label

\* line 77: a label naming a date or timestamp column
IsDateLabel(c) ==
  StrContains(StrLower(c), KwDate) \/ StrContains(StrLower(c), TimestampCol)

\* CleanName with the two overrides tested in the other order (a defect)
CleanNameGridFirst(col) ==
  IF \/ StrContains(StrLower(col), KwGridLoadU)
     \/ StrContains(StrLower(col), KwGridLoadS) THEN GridLoadName
  ELSE IF StrContains(StrLower(col), KwResidual) THEN ResidualLoadName
  ELSE StrReplaceChar(StrStrip(SplitHead(col, "[")), " ", "_")

\* lines 85-89: the clean name of one raw column label
CleanName(col) ==
  IF StrContains(StrLower(col), KwResidual) THEN ResidualLoadName
  ELSE IF \/ StrContains(StrLower(col), KwGridLoadU)
          \/ StrContains(StrLower(col), KwGridLoadS) THEN GridLoadName
  ELSE StrReplaceChar(StrStrip(SplitHead(col, "[")), " ", "_")

\* lines 81-91: df.rename(columns={col: clean_name}) for every col of the
\* labels the loop started with, each applied to the labels as they are then
RECURSIVE RenameLoop(_, _)
RenameLoop(todo, labels) ==
  IF todo = <<>> THEN labels
  ELSE RenameLoop(Tail(todo),
         [j \in 1..Len(labels) |->
            IF labels[j] = Head(todo) THEN CleanName(Head(todo))
            ELSE labels[j]])

\* a label borne by two columns: df[label] is then a DataFrame, not a Series
HasDuplicate(labels) ==
  \E i, j \in 1..Len(labels) : i # j /\ labels[i] = labels[j]

\* lines 98-100: every object column goes through parse_german_number
CoerceTable(t) ==
  [names  |-> t.names,
   dtypes |-> [j \in 1..Len(t.names) |->
                 IF t.dtypes[j] = "object" /\ t.rows # <<>> THEN "float64"
                 ELSE t.dtypes[j]],
   rows   |-> [i \in 1..Len(t.rows) |->
                 [ts   |-> t.rows[i].ts,
                  vals |-> [j \in 1..Len(t.names) |->
                              IF t.dtypes[j] = "object"
                                THEN parse_german_number(t.rows[i].vals[j])
                                ELSE t.rows[i].vals[j]]]]]

\* lines 73-78: the positions of the columns left after set_index took
\* 'timestamp' and the date and timestamp columns were dropped
KeptColumns(labels) ==
  Ascending({j \in 1..Len(labels) :
               labels[j] # TimestampCol /\ ~IsDateLabel(labels[j])})

\* lines 69-102 of clean_smard_df, given the loaded table and the parsed
\* 'timestamp' column ts (one instant per row)
CleanFrom(df, ts) ==
  LET rowIdx == Ascending({i \in 1..Len(df.rows) : ~ts[i].nat})
      colIdx == KeptColumns(df.labels)
      kept   == Pick(df.labels, colIdx)
      t      == [names  |-> RenameLoop(kept, kept),
                 dtypes |-> Pick(df.dtypes, colIdx),
                 rows   |-> [k \in 1..Len(rowIdx) |->
                               [ts   |-> ts[rowIdx[k]],
                                vals |-> Pick(df.rows[rowIdx[k]], colIdx)]]]
  IN  IF HasDuplicate(t.names) THEN Raise("AttributeError")
      ELSE RetTable(CoerceTable(t))

\* lines 36-40: whether pd.read_csv raised
ReadFails(file) == ~file.readable

\* clean_smard_df(file_path), for the content of the file at that path
clean_smard_df(file) ==
  IF ReadFails(file) THEN RetNone
  ELSE
    LET df == file.df
    IN  IF HasColumn(df.labels, StartDateCol)
          THEN LET c == ColumnIndex(df.labels, StartDateCol)
               IN  CleanFrom(df, [i \in 1..Len(df.rows) |->
                                    ToDatetimeCoerce(df.rows[i][c])])
        ELSE IF HasColumn(df.labels, TimestampCol)
          THEN LET c == ColumnIndex(df.labels, TimestampCol)
               IN  IF \E i \in 1..Len(df.rows) :
                        ToDatetimeRaises(df.rows[i][c])
                     THEN Raise("ValueError")
                     ELSE CleanFrom(df, [i \in 1..Len(df.rows) |->
                                           ToDatetimeInfer(df.rows[i][c])])
        ELSE Raise("KeyError")

(***************************************************************************)
(* The merge of run_pipeline.                                              *)
(***************************************************************************)
\* JoinRows as how='left' would build them (a defect): a left row without
\* a partner is kept
RECURSIVE JoinRowsLeft(_, _)
JoinRowsLeft(lrows, rrows) ==
  IF lrows = <<>> THEN <<>>
  ELSE LET l == Head(lrows)
           m == Ascending({j \in 1..Len(rrows) : rrows[j].ts = l.ts})
       IN  (IF m = <<>> THEN <<l>>
            ELSE [k \in 1..Len(m) |->
                    [ts |-> l.ts, vals |-> l.vals \o rrows[m[k]].vals]])
           \o JoinRowsLeft(Tail(lrows), rrows)

\* the rows DataFrame.join(how='inner') builds: every pair of a left and a
\* right row with the same index value, in the order of the left rows
RECURSIVE JoinRows(_, _)
JoinRows(lrows, rrows) ==
  IF lrows = <<>> THEN <<>>
  ELSE LET l == Head(lrows)
           m == Ascending({j \in 1..Len(rrows) : rrows[j].ts = l.ts})
       IN  [k \in 1..Len(m) |->
              [ts |-> l.ts, vals |-> l.vals \o rrows[m[k]].vals]]
           \o JoinRows(Tail(lrows), rrows)

\* line 162: master_df.join(other, how='inner'); pandas raises ValueError
\* ("columns overlap but no suffix specified") when a label is in both
JoinInner(left, right) ==
  IF \E i \in 1..Len(left.names), j \in 1..Len(right.names) :
       left.names[i] = right.names[j]
    THEN Raise("ValueError")
    ELSE RetTable([names  |-> left.names \o right.names,
                   dtypes |-> left.dtypes \o right.dtypes,
                   rows   |-> JoinRows(left.rows, right.rows)])

\* line 166: sort_index(), ascending by instant, equal instants in their
\* former order
RECURSIVE SortRows(_)
SortRows(rows) ==
  IF rows = <<>> THEN <<>>
  ELSE LET rest == SortRows(SubSeq(rows, 1, Len(rows) - 1))
           r    == rows[Len(rows)]
           n    == Cardinality({i \in 1..Len(rest) :
                      InstantLeq(rest[i].ts, r.ts)})
       IN  SubSeq(rest, 1, n) \o <<r>> \o SubSeq(rest, n + 1, Len(rest))

SortIndex(t) == [names |-> t.names, dtypes |-> t.dtypes, rows |-> SortRows(t.rows)]

\* lines 160-162: master_df = dfs[0], then joined with dfs[1], dfs[2], ...
RECURSIVE JoinAll(_, _)
JoinAll(acc, rest) ==
  IF rest = <<>> THEN RetTable(acc)
  ELSE LET r == JoinInner(acc, Head(rest))
       IN  IF r.kind = "raise" THEN r ELSE JoinAll(r.df, Tail(rest))

\* lines 160-166
MergeTables(d) ==
  IF d = <<>> THEN Raise("IndexError")
  ELSE LET r == JoinAll(d[1], Tail(d))
       IN  IF r.kind = "raise" THEN r ELSE RetTable(SortIndex(r.df))

(***************************************************************************)
(* The steps of run_pipeline around the calls of clean_smard_df.           *)
(***************************************************************************)
\* Collect without the test for None (a defect): a failed read appends an
\* empty table
CollectAlways(d, r) == Append(d, r.df)

\* lines 116-121, 125-127, 135-151: a table is appended, None is skipped
Collect(d, r) == IF r.kind = "df" THEN Append(d, r.df) ELSE d

\* line 141: the test of one label of the cleaned price table
IsPriceLabel(col) == StrContains(col, KwDeutschland) \/ StrContains(col, KwEuro)

\* lines 139-149: the labels of price_df after the rename
RenamePrice(names) ==
  IF \E j \in 1..Len(names) : IsPriceLabel(names[j])
    THEN LET f == CHOOSE j \in 1..Len(names) :
                    /\ IsPriceLabel(names[j])
                    /\ \A i \in 1..(j - 1) : ~IsPriceLabel(names[i])
         IN  [j \in 1..Len(names) |->
                IF names[j] = names[f] THEN DayAheadPriceName ELSE names[j]]
  ELSE IF Len(names) = 1 THEN <<DayAheadPriceName>>
  ELSE names

\* lines 134-151: what is appended for the price source
PriceResult(r) ==
  IF r.kind = "df"
    THEN RetTable([names  |-> RenamePrice(r.df.names),
                   dtypes |-> r.df.dtypes,
                   rows   |-> r.df.rows])
    ELSE r

\* NoData with the test gone (a defect): the run goes on to the merge
NoDataNever(d) == FALSE

\* line 153: not dfs
NoData(d) == d = <<>>

\* lines 30 and 39: what clean_smard_df prints
CleanPrints(src, file) ==
  IF ReadFails(file) THEN <<<<"Processing", src>>, <<"Error reading", src>>>>
  ELSE <<<<"Processing", src>>>>

(***************************************************************************)
(* The files the runs are explored over.                                   *)
(***************************************************************************)
DateCol == <<"D","a","t","e">>
EndDateCol == <<"E","n","d"," ","d","a","t","e">>
HTotalMWh == <<"T","o","t","a","l"," ","[","M","W","h","]">>
HTotal == <<"T","o","t","a","l">>
HWindOffshore ==
  <<"W","i","n","d"," ","o","f","f","s","h","o","r","e"," ","[","M","W","h","]">>
HResidualLoad ==
  <<"R","e","s","i","d","u","a","l"," ","l","o","a","d"," ","[","M","W","h","]">>
HGridLoad == <<"G","r","i","d"," ","l","o","a","d"," ","[","M","W","h","]">>
HGridResidual ==
  <<"g","r","i","d","_","l","o","a","d"," ","r","e","s","i","d","u","a","l">>
HPriceEuro == <<"P","r","i","c","e"," ","[","€","/","M","W","h","]">>
HDeLu ==
  <<"D","e","u","t","s","c","h","l","a","n","d","/","L","u","x","e","m","b",
    "u","r","g"," ","[","€","/","M","W","h","]">>
HVolume == <<"V","o","l","u","m","e"," ","[","M","W","h","]">>

TsMidnight ==
  <<"J","a","n"," ","1",","," ","2","0","2","1"," ","1","2",":","0","0"," ","A","M">>
TsOneAM ==
  <<"J","a","n"," ","1",","," ","2","0","2","1"," ","1",":","0","0"," ","A","M">>
TsOneAMPadded ==
  <<"J","a","n"," ","0","1",","," ","2","0","2","1"," ","0","1",":","0","0"," ","A","M">>
TsIsoMidnight ==
  <<"2","0","2","1","-","0","1","-","0","1"," ","0","0",":","0","0",":","0","0">>
TsIsoOneAM ==
  <<"2","0","2","1","-","0","1","-","0","1"," ","0","1",":","0","0",":","0","0">>
\* the text SMARD exports put where a value is missing
Dash == <<"-">>

Sources == <<"generation", "consumption", "prices">>

\* the sequences over S of length lo..hi
SeqsOf(S, lo, hi) == UNION {[1..k -> S] : k \in lo..hi}
DistinctSeqsOf(S, lo, hi) ==
  {s \in SeqsOf(S, lo, hi) : \A i, j \in 1..Len(s) : i # j => s[i] # s[j]}

\* the cell of row i in the data column at position j of the file of source
\* number n: text columns hold "-" and German-formatted numbers, numeric
\* columns a number that tells source, column and row
DataCell(n, j, i, dtype) ==
  IF dtype = "object"
    THEN IF i % 2 = 1 THEN StrCell(Dash)
         ELSE StrCell(<<DigitChars[n + 1], ".", "2", "3", DigitChars[j + 1], ",", "5">>)
    ELSE NumCell(FALSE, 100 * n + 10 * j + i, 0)

\* a readable file of source number n: the timestamp column first, then the
\* data columns, alternately text and numeric
MkFile(n, tsLabel, dataLabels, tsCells) ==
  LET dt(j) == IF j = 1 \/ j % 2 = 0 THEN "object" ELSE "float64"
  IN  [readable |-> TRUE,
       df |-> [labels |-> <<tsLabel>> \o dataLabels,
               dtypes |-> [j \in 1..(Len(dataLabels) + 1) |-> dt(j)],
               rows   |-> [i \in 1..Len(tsCells) |->
                             [j \in 1..(Len(dataLabels) + 1) |->
                                IF j = 1 THEN tsCells[i]
                                ELSE DataCell(n, j, i, dt(j))]]]]

\* a file pd.read_csv cannot read (missing, unreadable, not parseable)
Unreadable ==
  [readable |-> FALSE, df |-> [labels |-> <<>>, dtypes |-> <<>>, rows |-> <<>>]]

\* timestamp cells by the label of the timestamp column
TsCells(tsLabel) ==
  IF tsLabel = StartDateCol
    THEN {StrCell(TsMidnight), StrCell(TsOneAM), StrCell(TsOneAMPadded),
          StrCell(Dash), NaN}
  ELSE IF tsLabel = TimestampCol
    THEN {StrCell(TsIsoMidnight), StrCell(TsIsoOneAM), StrCell(Dash), NaN}
  ELSE {StrCell(TsMidnight)}

HeaderPool ==
  {HTotalMWh, HTotal, HResidualLoad, HGridLoad, HGridResidual, HWindOffshore,
   EndDateCol}

\* generation files with every choice of headers and few rows
HeaderFiles ==
  UNION {{MkFile(1, th, hs, tc) :
            hs \in DistinctSeqsOf(HeaderPool, 1, MaxCols),
            tc \in SeqsOf({CHOOSE c \in TsCells(th) : ~ToDatetimeInfer(c).nat},
                          0, 1)} :
         th \in {StartDateCol, TimestampCol, DateCol}}

\* generation files with every choice of timestamp cells and few headers
RowFiles ==
  UNION {{MkFile(1, th, hs, tc) :
            hs \in {<<HTotalMWh>>, <<HGridLoad, HWindOffshore>>},
            tc \in SeqsOf(TsCells(th), 0, MaxRows)} :
         th \in {StartDateCol, TimestampCol}}

\* the files of one source in the runs over all three sources
SourceFiles(n, headers, cells, lo, hi) ==
  {Unreadable} \cup
  {MkFile(n, StartDateCol, hs, tc) :
     hs \in headers, tc \in SeqsOf(cells, lo, hi)}

\* runs over all three sources, and runs that explore one file in depth
\* while the two other sources are unreadable
InputFiles ==
  [generation  : SourceFiles(1, {<<HTotalMWh>>, <<HTotalMWh, HResidualLoad>>},
                             {StrCell(TsMidnight), StrCell(TsOneAM)}, 1, MaxRows),
   consumption : SourceFiles(2, {<<HGridLoad, HResidualLoad>>, <<HTotal>>},
                             {StrCell(TsMidnight), StrCell(TsOneAM)}, 1, MaxRows),
   prices      : SourceFiles(3, {<<HDeLu>>, <<HPriceEuro>>, <<HPriceEuro, HVolume>>},
                             {StrCell(TsMidnight)}, 1, MaxRows)]
  \cup
  [generation : HeaderFiles \cup RowFiles,
   consumption : {Unreadable}, prices : {Unreadable}]

\* the output file before the run: absent, or left by an earlier run
NoFile == [exists |-> FALSE, content |-> EmptyTable]
OldFile ==
  [exists |-> TRUE,
   content |-> [names |-> <<DayAheadPriceName>>, dtypes |-> <<"float64">>,
                rows |-> <<>>]]

(***************************************************************************)
(* The state machine: one run of run_pipeline.                             *)
(***************************************************************************)
VARIABLES
  files,    \* the content of the three source files
  pc,       \* where run_pipeline is
  dfs,      \* the list dfs
  master,   \* master_df
  outfile,  \* the file at output_path
  console,  \* what was printed
  exc       \* the exception that escaped run_pipeline, "" when none

vars == <<files, pc, dfs, master, outfile, console, exc>>

Init ==
  /\ files \in InputFiles
  /\ pc = "generation"
  /\ dfs = <<>>
  /\ master = EmptyTable
  /\ outfile \in {NoFile, OldFile}
  /\ console = <<>>
  /\ exc = ""

\* one call of clean_smard_df and what the driver does with the result
Process(src, r, next) ==
  /\ console' = console \o CleanPrints(src, files[src])
  /\ IF r.kind = "raise"
       THEN pc' = "raised" /\ exc' = r.exc /\ dfs' = dfs
       ELSE pc' = next /\ exc' = exc /\ dfs' = Collect(dfs, r)
  /\ UNCHANGED <<files, master, outfile>>

\* lines 115-121
ProcessGeneration ==
  /\ pc = "generation"
  /\ Process("generation", clean_smard_df(files.generation), "consumption")

\* lines 124-127
ProcessConsumption ==
  /\ pc = "consumption"
  /\ Process("consumption", clean_smard_df(files.consumption), "prices")

\* lines 134-151
ProcessPrices ==
  /\ pc = "prices"
  /\ Process("prices", PriceResult(clean_smard_df(files.prices)), "check")

\* lines 153-158
CheckData ==
  /\ pc = "check"
  /\ IF NoData(dfs)
       THEN pc' = "returned" /\ console' = Append(console, <<"No data processed.", "">>)
       ELSE pc' = "merge" /\ console' = Append(console, <<"Merging datasets...", "">>)
  /\ UNCHANGED <<files, dfs, master, outfile, exc>>

\* lines 160-166
MergeAll ==
  /\ pc = "merge"
  /\ LET r == MergeTables(dfs)
     IN  IF r.kind = "raise"
           THEN pc' = "raised" /\ exc' = r.exc /\ master' = master
           ELSE pc' = "save" /\ exc' = exc /\ master' = r.df
  /\ UNCHANGED <<files, dfs, outfile, console>>

\* lines 168-177
Save ==
  /\ pc = "save"
  /\ outfile' = [exists |-> TRUE, content |-> master]
  /\ console' = Append(console, <<"Saved master dataset", "">>)
  /\ pc' = "returned"
  /\ UNCHANGED <<files, dfs, master, exc>>

Next ==
  \/ ProcessGeneration
  \/ ProcessConsumption
  \/ ProcessPrices
  \/ CheckData
  \/ MergeAll
  \/ Save

Spec == Init /\ [][Next]_vars

(***************************************************************************)
(* Properties.                                                             *)
(***************************************************************************)
TimestampsOf(t) == {t.rows[i].ts : i \in 1..Len(t.rows)}
NamesOf(t) == {t.names[j] : j \in 1..Len(t.names)}

\* the sources whose file was read, in the order of the driver
LoadedSources == SelectSeq(Sources, LAMBDA s : files[s].readable)
AllFail == \A k \in 1..Len(Sources) : ~files[Sources[k]].readable

\* clean_smard_df has just been called on a generation file that was read
GenCleaned ==
  files.generation.readable /\ console = <<<<"Processing", "generation">>>>
GenLabels == files.generation.df.labels
GenKeptIdx == KeptColumns(GenLabels)
GenKept == Pick(GenLabels, GenKeptIdx)

\* the merge step has run
MergeAttempted ==
  /\ pc \in {"save", "returned", "raised"}
  /\ \E i \in 1..Len(console) : console[i] = <<"Merging datasets...", "">>

\* the canonical name of a raw header: Residual_Load before Grid_Load before
\* the generic cleanup
CanonicalName(h) ==
  IF StrContains(StrLower(h), KwResidual) THEN ResidualLoadName
  ELSE IF StrContains(StrLower(h), KwGridLoadS)
          \/ StrContains(StrLower(h), KwGridLoadU) THEN GridLoadName
  ELSE StrReplaceChar(StrStrip(SplitHead(h, "[")), " ", "_")

\* C1: whenever the merge of a non-empty list dfs produces master_df, the
\* timestamps of master_df are exactly those present in every table of dfs,
\* and every row of master_df carries, for every column of every table of
\* dfs, a column of that name with the value of a row of that table at the
\* same timestamp.
C1_MergeIsIntersection ==
  pc = "save" =>
    /\ dfs # <<>>
    /\ TimestampsOf(master) =
         {t \in TimestampsOf(dfs[1]) :
            \A k \in 1..Len(dfs) : t \in TimestampsOf(dfs[k])}
    /\ NamesOf(master) = UNION {NamesOf(dfs[k]) : k \in 1..Len(dfs)}
    /\ \A r \in 1..Len(master.rows), k \in 1..Len(dfs) :
         \A c \in 1..Len(dfs[k].names) :
           \E j \in 1..Len(master.names) :
             /\ master.names[j] = dfs[k].names[c]
             /\ \E i \in 1..Len(dfs[k].rows) :
                  /\ dfs[k].rows[i].ts = master.rows[r].ts
                  /\ dfs[k].rows[i].vals[c] = master.rows[r].vals[j]

\* three tables merged, a row survives and a timestamp of an input is left out
C1_Witness ==
  /\ pc = "save"
  /\ Len(dfs) = 3
  /\ master.rows # <<>>
  /\ \E k \in 1..3 : TimestampsOf(dfs[k]) # TimestampsOf(master)

\* the table the driver appends for a source that was read
ExpectedTable(s) ==
  IF s = "prices" THEN PriceResult(clean_smard_df(files[s])).df
  ELSE clean_smard_df(files[s]).df

\* C3: a source whose read fails does not stop the run: the step that finds
\* the failure leaves dfs as it is and moves on to the next source (to the
\* no-data test after prices); and the list that reaches the merge holds
\* exactly the tables of the sources that were read, in the order
\* generation, consumption, prices.
C3_ReadFailureSkipped ==
  [][/\ \A k \in 1..Len(Sources) :
          (pc = Sources[k] /\ ~files[Sources[k]].readable) =>
            /\ pc' = (IF k < Len(Sources) THEN Sources[k + 1] ELSE "check")
            /\ dfs' = dfs
            /\ exc' = ""
     /\ pc' = "merge" =>
          dfs' = [k \in 1..Len(LoadedSources) |-> ExpectedTable(LoadedSources[k])]
    ]_vars

\* consumption failed to load between two sources that loaded
C3_Witness ==
  /\ pc = "merge"
  /\ files.generation.readable
  /\ ~files.consumption.readable
  /\ files.prices.readable
  /\ Len(dfs) = 2

\* C4: in a run in which all three sources fail to load, no step changes the
\* output file or raises, the run never enters the merge, and it returns
\* right after printing "No data processed.".
C4_NoDataNoOutput ==
  [][AllFail =>
       /\ outfile' = outfile
       /\ exc' = ""
       /\ pc' \in {"consumption", "prices", "check", "returned"}
       /\ pc' = "returned" => console'[Len(console')] = <<"No data processed.", "">>
    ]_vars

\* such a run has returned and the file an earlier run left is still there
C4_Witness ==
  /\ AllFail
  /\ pc = "returned"
  /\ exc = ""
  /\ outfile = OldFile

C2_NoTimestampColumnGivesEmptyTable ==
  (/\ GenCleaned
   /\ ~HasColumn(GenLabels, StartDateCol)
   /\ ~HasColumn(GenLabels, TimestampCol)) =>
     /\ pc = "consumption"
     /\ exc = ""
     /\ Len(dfs) = 1
     /\ dfs[1].rows = <<>>

\* C5: when two of the merged tables have a column of the same name, the
\* merge completes, and master_df has one column of that name whose values
\* are those of the later table.
C5_CollisionLastWins ==
  MergeAttempted =>
    \A a, b \in 1..Len(dfs) :
      \A ca \in 1..Len(dfs[a].names), cb \in 1..Len(dfs[b].names) :
        (a < b /\ dfs[a].names[ca] = dfs[b].names[cb]) =>
          /\ pc # "raised"
          /\ Cardinality({j \in 1..Len(master.names) :
                            master.names[j] = dfs[b].names[cb]}) = 1
          /\ \A r \in 1..Len(master.rows), j \in 1..Len(master.names) :
               master.names[j] = dfs[b].names[cb] =>
                 \E i \in 1..Len(dfs[b].rows) :
                   /\ dfs[b].rows[i].ts = master.rows[r].ts
                   /\ dfs[b].rows[i].vals[cb] = master.rows[r].vals[j]

\* the instant clean_smard_df reads from row i of the generation file
GenInstant(i) ==
  IF HasColumn(GenLabels, StartDateCol)
    THEN ToDatetimeCoerce(
           files.generation.df.rows[i][ColumnIndex(GenLabels, StartDateCol)])
  ELSE IF HasColumn(GenLabels, TimestampCol)
    THEN ToDatetimeInfer(
           files.generation.df.rows[i][ColumnIndex(GenLabels, TimestampCol)])
  ELSE NaT

\* C6: every table in dfs has at most one row per timestamp, and the row of
\* the generation table at a timestamp holds the values of the last row of
\* the file that parses to that timestamp.
C6_TimestampKeyUnique ==
  /\ \A k \in 1..Len(dfs) :
       \A i, j \in 1..Len(dfs[k].rows) :
         i # j => dfs[k].rows[i].ts # dfs[k].rows[j].ts
  /\ (GenCleaned /\ exc = "" /\ dfs # <<>>) =>
       \A r \in 1..Len(dfs[1].rows) :
         LET rows == files.generation.df.rows
             last == CHOOSE i \in 1..Len(rows) :
                       /\ GenInstant(i) = dfs[1].rows[r].ts
                       /\ \A j \in (i + 1)..Len(rows) :
                            GenInstant(j) # dfs[1].rows[r].ts
         IN  dfs[1].rows[r].vals =
               [c \in 1..Len(GenKeptIdx) |->
                  parse_german_number(rows[last][GenKeptIdx[c]])]

\* the raw headers of the price file that stay as columns
PriceKept ==
  Pick(files.prices.df.labels, KeptColumns(files.prices.df.labels))
RawPriceHeader(h) == StrContains(h, KwDeutschland) \/ StrContains(h, KwEuro)

\* C7: in the price table the driver appends, every column whose raw header
\* contains "Deutschland" or the euro sign is named Day_Ahead_Price; with no
\* such header and a single column, that column is named Day_Ahead_Price;
\* and no column of the generation or consumption table is renamed so.
C7_PriceColumnRenamed ==
  (pc = "check" /\ files.prices.readable) =>
    LET t == dfs[Len(dfs)]
    IN  /\ \A j \in 1..Len(PriceKept) :
             RawPriceHeader(PriceKept[j]) => t.names[j] = DayAheadPriceName
        /\ ((\A j \in 1..Len(PriceKept) : ~RawPriceHeader(PriceKept[j]))
              /\ Len(PriceKept) = 1) => t.names = <<DayAheadPriceName>>
        /\ \A k \in 1..(Len(dfs) - 1) : DayAheadPriceName \notin NamesOf(dfs[k])

\* C8: once clean_smard_df has been called on a generation file with a
\* 'Start date' or a 'timestamp' column (and no two headers of one clean
\* name), nothing was raised, and the table has one row for every row of the
\* file whose timestamp parses and none for the others.
C8_UnparseableTimestampDropped ==
  (/\ GenCleaned
   /\ HasColumn(GenLabels, StartDateCol) \/ HasColumn(GenLabels, TimestampCol)
   /\ ~HasDuplicate(RenameLoop(GenKept, GenKept))) =>
     /\ pc = "consumption"
     /\ exc = ""
     /\ Len(dfs) = 1
     /\ Len(dfs[1].rows) =
          Cardinality({i \in 1..Len(files.generation.df.rows) :
                         ~GenInstant(i).nat})

\* C10: once clean_smard_df has been called on a generation file with a
\* 'Start date' column in which two raw headers have the same canonical
\* name, nothing was raised, the table has a single column of that name, and
\* it holds the values of the later of the two raw columns.
C10_DuplicateNameLastWins ==
  (GenCleaned /\ HasColumn(GenLabels, StartDateCol)) =>
    \A a, b \in 1..Len(GenKept) :
      (a < b /\ CanonicalName(GenKept[a]) = CanonicalName(GenKept[b])) =>
        /\ pc = "consumption"
        /\ exc = ""
        /\ Len(dfs) = 1
        /\ ~HasDuplicate(dfs[1].names)
        /\ \E j \in 1..Len(dfs[1].names) :
             /\ dfs[1].names[j] = CanonicalName(GenKept[b])
             /\ \A r \in 1..Len(dfs[1].rows) :
                  \E i \in 1..Len(files.generation.df.rows) :
                    /\ GenInstant(i) = dfs[1].rows[r].ts
                    /\ dfs[1].rows[r].vals[j] =
                         parse_german_number(
                           files.generation.df.rows[i][GenKeptIdx[b]])

=============================================================================
